---- MODULE Spec2Model ----
(***************************************************************************)
(* SparkKernelBase (remotespark/sparkkernelbase.py): the command parser,   *)
(* the command dispatcher, the session lifecycle and the fatal-error      *)
(* latch of the Spark kernel.                                             *)
(*                                                                         *)
(* A Python str is a sequence of one-character strings, so that slicing,  *)
(* startswith, split and lower are computed and not assumed.  A handler   *)
(* is one action: the kernel is single threaded and each call runs to     *)
(* completion.  The executor (the inherited IPythonKernel.do_execute) is  *)
(* an oracle: every call of it consumes one reply drawn from Reply.       *)
(***************************************************************************)
EXTENDS Integers, Sequences, FiniteSets, TLC

VARIABLES
    phase,              \* "new": fields assigned (line 35); "ready" / "failed": __init__ returned / raised
    session_started,    \* self.session_started
    fatal_error,        \* self._fatal_error (None or a message)
    connection_string,  \* self.connection_string (Unset until line 42 ran)
    lifecycle,          \* history: the last create-session / cleanup payload and its status
    last,               \* history: the record of the most recent external call
    ncalls,             \* number of external calls made so far
    code,               \* the parser's input (ParseSpec)
    parsed              \* the parser's result (ParseSpec)

vars == <<phase, session_started, fatal_error, connection_string, lifecycle,
          last, ncalls, code, parsed>>

-----------------------------------------------------------------------------
(* Bounds *)

MaxCalls == 4
MaxTokens == 4

-----------------------------------------------------------------------------
(* Python str operations *)

Whitespace == {" ", "\n", "\t"}

UpperCase == <<"A", "B", "C", "D", "E", "F", "G", "H", "I", "J", "K", "L", "M",
               "N", "O", "P", "Q", "R", "S", "T", "U", "V", "W", "X", "Y", "Z">>
LowerCase == <<"a", "b", "c", "d", "e", "f", "g", "h", "i", "j", "k", "l", "m",
               "n", "o", "p", "q", "r", "s", "t", "u", "v", "w", "x", "y", "z">>

LowerChar(c) ==
    IF \E i \in 1..Len(UpperCase) : UpperCase[i] = c
    THEN LowerCase[CHOOSE i \in 1..Len(UpperCase) : UpperCase[i] = c]
    ELSE c

\* s.lower()
Lower(s) == [i \in 1..Len(s) |-> LowerChar(s[i])]

\* s.startswith(p)
StartsWith(s, p) == Len(s) >= Len(p) /\ SubSeq(s, 1, Len(p)) = p

\* s[n:]
DropFirst(s, n) == SubSeq(s, n + 1, Len(s))

\* index of the first character of s, at or after position `from`, that is
\* (space = TRUE) or is not (space = FALSE) whitespace; Len(s) + 1 when none
FirstIndex(s, from, space) ==
    LET idx == {i \in from..Len(s) : (s[i] \in Whitespace) = space}
    IN  IF idx = {} THEN Len(s) + 1
        ELSE CHOOSE i \in idx : \A j \in idx : i <= j

\* s.split(None, 1): leading whitespace is skipped, the first word is cut at
\* the next whitespace run, the remainder keeps its trailing whitespace; a
\* remainder of whitespace alone is no remainder
Split1(s) ==
    LET b == FirstIndex(s, 1, FALSE)
        e == FirstIndex(s, b, TRUE)
        r == FirstIndex(s, e, FALSE)
    IN  IF b > Len(s) THEN <<>>
        ELSE IF r > Len(s) THEN <<SubSeq(s, b, e - 1)>>
        ELSE <<SubSeq(s, b, e - 1), SubSeq(s, r, Len(s))>>

-----------------------------------------------------------------------------
(* Exceptions *)

NoException == [type |-> "None", args |-> <<>>]
IndexError == [type |-> "IndexError", args |-> <<"list index out of range">>]
KeyError(msg) == [type |-> "KeyError", args |-> msg]
ValueError(msg) == [type |-> "ValueError", args |-> msg]

-----------------------------------------------------------------------------
(* Class attributes, lines 12-15 *)

run_command == <<"r", "u", "n">>
config_command == <<"c", "o", "n", "f", "i", "g">>
sql_command == <<"s", "q", "l">>
hive_command == <<"h", "i", "v", "e">>

-----------------------------------------------------------------------------
(* _parse_user_command, lines 135-162 *)

\* lines 137-138
NormalizeMarkerMissing(c) == c
NormalizeMarker(c) == IF StartsWith(c, <<"%", "%">>) THEN DropFirst(c, 1) ELSE c

\* lines 141-142
ImplicitRun(c) ==
    IF ~StartsWith(c, <<"%">>) THEN <<"%">> \o run_command \o <<" ">> \o c ELSE c

\* the loop of lines 153-157, the state being (flags, rest)
RECURSIVE FlagLoopGreedy(_, _)
FlagLoopGreedy(flags, rest) ==
    LET flag_split == Split1(rest)
    IN  IF Len(flag_split) >= 1 /\ StartsWith(flag_split[1], <<"-">>)
        THEN FlagLoopGreedy(Append(flags, Lower(DropFirst(flag_split[1], 1))),
                            IF Len(flag_split) >= 2 THEN flag_split[2] ELSE <<>>)
        ELSE [flags |-> flags, rest |-> rest]
RECURSIVE FlagLoop(_, _)
FlagLoop(flags, rest) ==
    LET flag_split == Split1(rest)
    IN  IF Len(flag_split) >= 2 /\ StartsWith(flag_split[1], <<"-">>)
        THEN FlagLoop(Append(flags, Lower(DropFirst(flag_split[1], 1))), flag_split[2])
        ELSE [flags |-> flags, rest |-> rest]

ParseUserCommandEmptyBody(c) ==
    LET stripped == DropFirst(ImplicitRun(NormalizeMarker(c)), 1)
        split_code == Split1(stripped)
    IN  IF Len(split_code) < 1
        THEN [raised |-> IndexError, subcommand |-> <<>>, flags |-> <<>>, rest |-> <<>>]
        ELSE LET loop == FlagLoop(<<>>, IF Len(split_code) < 2 THEN <<>> ELSE split_code[2])
             IN  [raised |-> NoException,
                  subcommand |-> Lower(split_code[1]),
                  flags |-> [i \in 1..Len(loop.flags) |-> Lower(loop.flags[i])],
                  rest |-> loop.rest]
ParseUserCommand(c) ==
    LET stripped == DropFirst(ImplicitRun(NormalizeMarker(c)), 1)
        split_code == Split1(stripped)
    IN  IF Len(split_code) < 2
        THEN \* split_code[0] or split_code[1] is out of range
             [raised |-> IndexError, subcommand |-> <<>>, flags |-> <<>>, rest |-> <<>>]
        ELSE LET loop == FlagLoop(<<>>, split_code[2])
             IN  [raised |-> NoException,
                  subcommand |-> Lower(split_code[1]),
                  flags |-> [i \in 1..Len(loop.flags) |-> Lower(loop.flags[i])],
                  rest |-> loop.rest]

NotParsed == [raised |-> [type |-> "NotParsed", args |-> <<>>],
              subcommand |-> <<>>, flags |-> <<>>, rest |-> <<>>]

-----------------------------------------------------------------------------
(* Values *)

\* Python None, for a message (a sequence of text pieces)
None == <<>>

\* self.connection_string before line 42 has run
Unset == <<>>

\* the constructor's parameters, lines 27-29
kernel_conf_name == "python"
session_language == <<"p", "y">>
client_name == <<"c", "l", "i">>

\* the reply_content of the inherited do_execute: status and, on error, evalue
EValues == {"e1", "e2"}
OkReply == [status |-> "ok", evalue |-> ""]
Reply == {OkReply} \cup {[status |-> "error", evalue |-> e] : e \in EValues}
NoReply == [status |-> "none", evalue |-> ""]

\* the credentials dictionary of the configuration: any of the three keys may
\* be missing, any value may be empty
CredentialKeys == {"username", "password", "url"}
CredentialValues == {<<>>, <<"u">>}
Credentials == UNION {[K -> CredentialValues] : K \in SUBSET CredentialKeys}

\* remotespark.utils.utils.get_connection_string
get_connection_string(url, username, password) ==
    <<"u", "r", "l", "=">> \o url \o <<";">> \o username \o <<";">> \o password

\* conf.fatal_error_suggestion().format(message)
fatal_error_suggestion(message) == <<"fatal_error_suggestion: ">> \o message

-----------------------------------------------------------------------------
(* The frame of one external call: the instance's fields, the replies the
   executor will give, and what the call has done so far. *)

Frame(replies) ==
    [session_started |-> session_started,
     fatal_error |-> fatal_error,
     connection_string |-> connection_string,
     lifecycle |-> lifecycle,
     replies |-> replies,
     sent |-> <<>>,
     stderr |-> <<>>,
     host |-> <<>>,
     raised |-> NoException,
     ret |-> NoReply]

Raised(k) == k.raised # NoException

\* the payloads of the session lifecycle, lines 96-97 and 104
cleanup_code == <<"%", "s", "p", "a", "r", "k", " ", "c", "l", "e", "a", "n", "u", "p">>
add_session_prefix == <<"%", "s", "p", "a", "r", "k", " ", "a", "d", "d", " ">>
add_session_code(k) ==
    add_session_prefix \o client_name \o <<" ">> \o session_language \o <<" ">>
        \o k.connection_string \o <<" ", "s", "k", "i", "p">>
register_magics_code ==
    <<"%", "l", "o", "a", "d", "_", "e", "x", "t", " ",
      "r", "e", "m", "o", "t", "e", "s", "p", "a", "r", "k">>

\* history: what the last lifecycle payload handed to the executor was
LifecycleAfter(old, payload, reply) ==
    IF StartsWith(payload, add_session_prefix)
    THEN (IF reply.status = "error" THEN "create_error" ELSE "create_ok")
    ELSE IF payload = cleanup_code THEN "cleanup"
    ELSE old

\* _send_error and _ipython_send_error, lines 191-196
SendError(k, error) ==
    [k EXCEPT !.stderr = Append(@, [name |-> "stderr", text |-> error])]

\* _abort_with_fatal_error, lines 182-189
AbortWithFatalError(k, message) ==
    [SendError([k EXCEPT !.fatal_error = message], fatal_error_suggestion(message))
        EXCEPT !.raised = ValueError(message)]

\* _execute_cell_for_user, lines 176-177: the inherited do_execute runs the
\* payload and answers with the next reply
ExecuteCellForUser(k, payload, silent, store_history) ==
    LET reply == Head(k.replies)
    IN  [k EXCEPT !.sent = Append(@, [code |-> payload,
                                      silent |-> silent,
                                      store_history |-> store_history,
                                      session_started |-> k.session_started,
                                      reply |-> reply]),
                  !.replies = Tail(@),
                  !.lifecycle = LifecycleAfter(@, payload, reply),
                  !.ret = reply]

\* _execute_cell, lines 164-174
ExecuteCellNeverFatal(k, payload, silent, store_history, shutdown_if_error, log_if_error) ==
    ExecuteCellForUser(k, payload, silent, store_history)
ExecuteCellAlwaysFatal(k, payload, silent, store_history, shutdown_if_error, log_if_error) ==
    LET k1 == ExecuteCellForUser(k, payload, silent, store_history)
        reply_content == k1.ret
    IN  IF reply_content.status = "error"
        THEN AbortWithFatalError(k1,
                 log_if_error \o <<"\nException details:\n\t\"", reply_content.evalue, "\"">>)
        ELSE k1
ExecuteCell(k, payload, silent, store_history, shutdown_if_error, log_if_error) ==
    LET k1 == ExecuteCellForUser(k, payload, silent, store_history)
        reply_content == k1.ret
    IN  IF shutdown_if_error /\ reply_content.status = "error" /\ log_if_error # None
        THEN AbortWithFatalError(k1,
                 log_if_error \o <<"\nException details:\n\t\"", reply_content.evalue, "\"">>)
        ELSE k1

\* _get_configuration, lines 123-133: sets ret to (username, password, url)
GetConfiguration(k, credentials) ==
    IF \/ CredentialKeys \ DOMAIN credentials # {}                \* KeyError
       \/ \E key \in CredentialKeys : credentials[key] = <<>>     \* AssertionError
    THEN AbortWithFatalError(k,
             <<"Please set configuration for 'kernel_", kernel_conf_name,
               "_credentials' to initialize Kernel.">>)
    ELSE [k EXCEPT !.ret = <<credentials["username"], credentials["password"],
                             credentials["url"]>>]

\* _load_magics_extension, lines 86-90
LoadMagicsExtension(k) ==
    ExecuteCell(k, register_magics_code, TRUE, FALSE, TRUE,
                <<"Failed to load the Spark magics library.">>)

\* _start_session, lines 92-100
StartSessionAlways(k) ==
    ExecuteCell([k EXCEPT !.session_started = TRUE], add_session_code(k),
                TRUE, FALSE, TRUE, <<"Failed to create a Livy session.">>)
StartSessionNoFlag(k) ==
    IF ~k.session_started
    THEN ExecuteCell(k, add_session_code(k), TRUE, FALSE, TRUE,
                     <<"Failed to create a Livy session.">>)
    ELSE k
StartSession(k) ==
    IF ~k.session_started
    THEN ExecuteCell([k EXCEPT !.session_started = TRUE], add_session_code(k),
                     TRUE, FALSE, TRUE, <<"Failed to create a Livy session.">>)
    ELSE k

\* _delete_session, lines 102-106
DeleteSessionAlways(k) ==
    [ExecuteCellForUser(k, cleanup_code, TRUE, FALSE) EXCEPT !.session_started = FALSE]
DeleteSessionFatal(k) ==
    IF k.session_started
    THEN LET k1 == ExecuteCell(k, cleanup_code, TRUE, FALSE, TRUE,
                               <<"Failed to clean up the session.">>)
         IN  IF Raised(k1) THEN k1 ELSE [k1 EXCEPT !.session_started = FALSE]
    ELSE k
DeleteSession(k) ==
    IF k.session_started
    THEN [ExecuteCellForUser(k, cleanup_code, TRUE, FALSE) EXCEPT !.session_started = FALSE]
    ELSE k

\* _do_shutdown_ipykernel, lines 179-180: the inherited do_shutdown
DoShutdownIpykernel(k, restart) ==
    [k EXCEPT !.host = Append(@, [restart |-> restart,
                                  session_started |-> k.session_started,
                                  sent |-> Len(k.sent)]),
              !.ret = [status |-> "ok", restart |-> restart]]

\* _run_starting_session, lines 108-110
RunStartingSession(k, payload, silent) ==
    LET k1 == StartSession(k)
    IN  IF Raised(k1) THEN k1
        ELSE ExecuteCell(k1, payload, silent, TRUE, FALSE, None)

\* _run_restarting_session, lines 112-121
RunRestartingSessionStartFirst(k, payload, silent, restart) ==
    LET k1 == IF restart THEN DeleteSession(k) ELSE k
        k2 == IF restart THEN StartSession(k1) ELSE k1
    IN  IF Raised(k2) THEN k2
        ELSE ExecuteCell(k2, payload, silent, TRUE, FALSE, None)
RunRestartingSessionReturnsLast(k, payload, silent, restart) ==
    LET k1 == IF restart THEN DeleteSession(k) ELSE k
        k2 == ExecuteCell(k1, payload, silent, TRUE, FALSE, None)
    IN  IF restart THEN StartSession(k2) ELSE k2
RunRestartingSessionNoStop(k, payload, silent, restart) ==
    LET k2 == ExecuteCell(k, payload, silent, TRUE, FALSE, None)
        res == k2.ret
        k3 == IF restart THEN StartSessionAlways(k2) ELSE k2
    IN  IF Raised(k3) THEN k3 ELSE [k3 EXCEPT !.ret = res]
RunRestartingSession(k, payload, silent, restart) ==
    LET k1 == IF restart THEN DeleteSession(k) ELSE k
        k2 == ExecuteCell(k1, payload, silent, TRUE, FALSE, None)
        res == k2.ret
        k3 == IF restart THEN StartSession(k2) ELSE k2
    IN  IF Raised(k3) THEN k3 ELSE [k3 EXCEPT !.ret = res]

\* the payload prefixes of lines 52, 55, 58 and 73
spark_run_prefix == <<"%", "%", "s", "p", "a", "r", "k", "\n">>
spark_sql_prefix ==
    <<"%", "%", "s", "p", "a", "r", "k", " ", "-", "c", " ", "s", "q", "l", "\n">>
spark_hive_prefix ==
    <<"%", "%", "s", "p", "a", "r", "k", " ", "-", "c", " ", "h", "i", "v", "e", "\n">>
spark_config_prefix ==
    <<"%", "%", "s", "p", "a", "r", "k", " ", "c", "o", "n", "f", "i", "g", " ">>

SessionAlreadyStartedMessage ==
    <<"A session has already been started. In order to modify the Spark configuration, please provide the '-f' flag at the beginning of the config magic">>
NotSupportedMessage(subcommand) == <<"Magic '">> \o subcommand \o <<"' not supported.">>

Contains(seq, x) == \E i \in 1..Len(seq) : seq[i] = x

\* do_execute, lines 45-47: the check of the latch
FatalErrorGateOpen(k) == k
FatalErrorGate(k) ==
    IF k.fatal_error # None THEN AbortWithFatalError(k, k.fatal_error) ELSE k

\* do_execute, lines 60-76: the config branch
ConfigBranchNoForceCheck(k, flags, code_to_run, silent) ==
    RunRestartingSession(k, spark_config_prefix \o code_to_run, silent, k.session_started)
ConfigBranchRestartOnForce(k, flags, code_to_run, silent) ==
    IF k.session_started /\ ~Contains(flags, <<"f">>)
    THEN [k EXCEPT !.raised = KeyError(SessionAlreadyStartedMessage)]
    ELSE RunRestartingSession(k, spark_config_prefix \o code_to_run, silent,
                              Contains(flags, <<"f">>))
ConfigBranch(k, flags, code_to_run, silent) ==
    IF k.session_started /\ ~Contains(flags, <<"f">>)
    THEN [k EXCEPT !.raised = KeyError(SessionAlreadyStartedMessage)]
    ELSE RunRestartingSession(k, spark_config_prefix \o code_to_run, silent,
                              k.session_started)

\* do_execute, lines 45-78
DoExecuteStartFirst(k0, input, silent) ==
    LET k == FatalErrorGate(k0)
        s == IF Raised(k) THEN k ELSE StartSession(k)
        p == ParseUserCommand(input)
    IN  IF Raised(s) THEN s
        ELSE IF p.raised # NoException THEN [s EXCEPT !.raised = p.raised]
        ELSE IF p.subcommand = run_command
             THEN RunStartingSession(s, spark_run_prefix \o p.rest, silent)
        ELSE IF p.subcommand = sql_command
             THEN RunStartingSession(s, spark_sql_prefix \o p.rest, silent)
        ELSE IF p.subcommand = hive_command
             THEN RunStartingSession(s, spark_hive_prefix \o p.rest, silent)
        ELSE IF p.subcommand = config_command
             THEN ConfigBranch(k, p.flags, p.rest, silent)
        ELSE [s EXCEPT !.raised = KeyError(NotSupportedMessage(p.subcommand))]
DoExecute(k0, input, silent) ==
    LET k == FatalErrorGate(k0)
        p == ParseUserCommand(input)
    IN  IF Raised(k) THEN k
        ELSE IF p.raised # NoException THEN [k EXCEPT !.raised = p.raised]
        ELSE IF p.subcommand = run_command
             THEN RunStartingSession(k, spark_run_prefix \o p.rest, silent)
        ELSE IF p.subcommand = sql_command
             THEN RunStartingSession(k, spark_sql_prefix \o p.rest, silent)
        ELSE IF p.subcommand = hive_command
             THEN RunStartingSession(k, spark_hive_prefix \o p.rest, silent)
        ELSE IF p.subcommand = config_command
             THEN ConfigBranch(k, p.flags, p.rest, silent)
        ELSE [k EXCEPT !.raised = KeyError(NotSupportedMessage(p.subcommand))]

\* do_shutdown, lines 80-84
DoShutdownHostFirst(k, restart) ==
    LET k1 == DeleteSession(DoShutdownIpykernel(k, restart))
    IN  [k1 EXCEPT !.ret = [status |-> "ok", restart |-> restart]]
DoShutdown(k, restart) == DoShutdownIpykernel(DeleteSession(k), restart)

-----------------------------------------------------------------------------
(* The kernel: construction, do_execute and do_shutdown *)

\* the record of an external call, from the frame it ended with
CallRecord(op, input, silent, k) ==
    [op |-> op,
     input |-> input,
     silent |-> silent,
     pre_op |-> last.op,
     pre_raised |-> last.raised,
     pre_started |-> session_started,
     pre_fatal |-> fatal_error,
     pre_lifecycle |-> lifecycle,
     sent |-> k.sent,
     stderr |-> k.stderr,
     host |-> k.host,
     raised |-> k.raised,
     ret |-> IF Raised(k) THEN NoReply ELSE k.ret]

NoCall ==
    [op |-> "none", input |-> <<>>, silent |-> FALSE, pre_op |-> "none",
     pre_raised |-> NoException,
     pre_started |-> FALSE,
     pre_fatal |-> None, pre_lifecycle |-> "none", sent |-> <<>>, stderr |-> <<>>,
     host |-> <<>>, raised |-> NoException, ret |-> NoReply]

\* the cells the host hands to do_execute
ExecInputs ==
    { <<"x">>,
      <<"-", "f", " ", "x">>,
      <<>>,
      <<"%", "r", "u", "n">>,
      <<"%", "r", "u", "n", " ", "y", " ">>,
      <<"%", "%", "s", "q", "l", " ", "x">>,
      <<"%", "h", "i", "v", "e", "\n", "x">>,
      <<"%", "f", "o", "o", " ", "x">>,
      <<"%", "c", "o", "n", "f", "i", "g", " ", "x">>,
      <<"%", "c", "o", "n", "f", "i", "g", " ", "-", "f">>,
      <<"%", "c", "o", "n", "f", "i", "g", " ", "-", "f", " ", "x">>,
      <<"%", "c", "o", "n", "f", "i", "g", " ", "-", "x", " ", "-", "f", " ", "y">>,
      <<"%", "%", "C", "O", "N", "F", "I", "G", " ", "-", "F", " ", "y">> }

\* the replies of the executor to the (at most three) payloads of one call
Replies == [1..3 -> Reply]

\* the fields as lines 34-35 leave them
Init ==
    /\ phase = "new"
    /\ session_started = FALSE
    /\ fatal_error = None
    /\ connection_string = Unset
    /\ lifecycle = "none"
    /\ last = NoCall
    /\ ncalls = 0
    /\ code = <<>>
    /\ parsed = NotParsed

\* __init__, lines 40-43, without the testing switch
Construct(credentials, replies) ==
    /\ phase = "new"
    /\ LET k1 == GetConfiguration(Frame(replies), credentials)
           k2 == IF Raised(k1) THEN k1
                 ELSE [k1 EXCEPT !.connection_string =
                                     get_connection_string(k1.ret[3], k1.ret[1], k1.ret[2]),
                                 !.ret = NoReply]
           k3 == IF Raised(k2) THEN k2 ELSE LoadMagicsExtension(k2)
       IN  /\ phase' = IF Raised(k3) THEN "failed" ELSE "ready"
           /\ session_started' = k3.session_started
           /\ fatal_error' = k3.fatal_error
           /\ connection_string' = k3.connection_string
           /\ lifecycle' = k3.lifecycle
           /\ last' = CallRecord("__init__", <<>>, TRUE, k3)
    /\ UNCHANGED <<ncalls, code, parsed>>

\* one call of do_execute, on an instance whose __init__ has run (also one
\* whose __init__ raised: its latch is set and the call is refused)
Execute(input, silent, replies) ==
    /\ phase # "new"
    /\ ncalls < MaxCalls
    /\ \E k \in {DoExecute(Frame(replies), input, silent)} :
           /\ session_started' = k.session_started
           /\ fatal_error' = k.fatal_error
           /\ lifecycle' = k.lifecycle
           /\ last' = CallRecord("do_execute", input, silent, k)
    /\ ncalls' = ncalls + 1
    /\ UNCHANGED <<phase, connection_string, code, parsed>>

\* one call of do_shutdown
Shutdown(restart, replies) ==
    /\ phase # "new"
    /\ ncalls < MaxCalls
    /\ \E k \in {DoShutdown(Frame(replies), restart)} :
           /\ session_started' = k.session_started
           /\ fatal_error' = k.fatal_error
           /\ lifecycle' = k.lifecycle
           /\ last' = CallRecord("do_shutdown", <<>>, restart, k)
    /\ ncalls' = ncalls + 1
    /\ UNCHANGED <<phase, connection_string, code, parsed>>

Next ==
    \/ \E credentials \in Credentials, replies \in Replies : Construct(credentials, replies)
    \/ \E input \in ExecInputs, silent \in BOOLEAN, replies \in Replies :
           Execute(input, silent, replies)
    \/ \E restart \in BOOLEAN, replies \in Replies : Shutdown(restart, replies)

Spec == Init /\ [][Next]_vars

-----------------------------------------------------------------------------
(* The parser alone, on inputs put together from a prefix, up to MaxTokens
   words, the whitespace between them and the whitespace after them *)

ParsePrefixes ==
    { <<>>, <<" ">>, <<"%">>, <<"%", "%">>, <<"%", "%", "%">>, <<"%", " ">> }
ParseTokens ==
    { <<"a">>, <<"B", "c">>, <<"-", "a">>, <<"-", "B", "c">>, <<"-">>, <<"%", "a">> }
ParseSeparators == { <<" ">>, <<"\n", " ">> }
ParseTrailers == { <<>>, <<" ">> }

RECURSIVE Join(_, _)
Join(tokens, sep) ==
    IF tokens = <<>> THEN <<>>
    ELSE IF Len(tokens) = 1 THEN tokens[1]
    ELSE tokens[1] \o sep \o Join(Tail(tokens), sep)

TokenSeqs == UNION {[1..n -> ParseTokens] : n \in 0..MaxTokens}

ParseInputs ==
    { pre \o Join(ts, sep) \o trail :
        pre \in ParsePrefixes, ts \in TokenSeqs,
        sep \in ParseSeparators, trail \in ParseTrailers }

ParseInit ==
    /\ phase = "new"
    /\ session_started = FALSE
    /\ fatal_error = None
    /\ connection_string = Unset
    /\ lifecycle = "none"
    /\ last = NoCall
    /\ ncalls = 0
    /\ code \in ParseInputs
    /\ parsed = NotParsed

\* one call of _parse_user_command
Parse ==
    /\ parsed = NotParsed
    /\ parsed' = ParseUserCommand(code)
    /\ UNCHANGED <<phase, session_started, fatal_error, connection_string,
                   lifecycle, last, ncalls, code>>

ParseNext == Parse

ParseSpec == ParseInit /\ [][ParseNext]_vars

-----------------------------------------------------------------------------
(* Vocabulary of the properties *)

IsCreate(payload) == StartsWith(payload, add_session_prefix)
IsCleanup(payload) == payload = cleanup_code
IsUserPayload(payload) ==
    \/ StartsWith(payload, spark_run_prefix)
    \/ StartsWith(payload, spark_sql_prefix)
    \/ StartsWith(payload, spark_hive_prefix)

\* the payloads of a call, in the order the executor got them
Payloads(sent) == [i \in 1..Len(sent) |-> sent[i].code]

NumCleanup(sent) == Cardinality({i \in 1..Len(sent) : IsCleanup(sent[i].code)})

\* the create-session payload of this instance
CreatePayload == add_session_code([connection_string |-> connection_string])

\* the message of a failed session start
CreateFailedMessage(evalue) ==
    <<"Failed to create a Livy session.", "\nException details:\n\t\"", evalue, "\"">>

\* the command of the last call, as the parser reads it
LastCommand == ParseUserCommand(last.input)

LastIsConfig ==
    /\ last.op = "do_execute"
    /\ LastCommand.raised = NoException
    /\ LastCommand.subcommand = config_command

\* the whitespace-separated words of s
RECURSIVE Words(_)
Words(s) ==
    LET b == FirstIndex(s, 1, FALSE)
        e == FirstIndex(s, b, TRUE)
    IN  IF b > Len(s) THEN <<>>
        ELSE <<SubSeq(s, b, e - 1)>> \o Words(DropFirst(s, e - 1))

\* s without the whitespace around it
Strip(s) ==
    LET idx == {i \in 1..Len(s) : s[i] \notin Whitespace}
    IN  IF idx = {} THEN <<>>
        ELSE SubSeq(s, CHOOSE i \in idx : \A j \in idx : i <= j,
                       CHOOSE i \in idx : \A j \in idx : i >= j)

IsDash(word) == Len(word) >= 1 /\ word[1] = "-"

-----------------------------------------------------------------------------
(* C1 .. C7: the latch and the session lifecycle (Spec) *)

\* C1: once the fatal-error latch holds a message M it holds M for ever (it is
\* neither cleared nor changed), and every later do_execute call, whatever its
\* input, fails with ValueError(M).
C1_LatchReplaysSameMessage ==
    [][fatal_error # None =>
           /\ fatal_error' = fatal_error
           /\ (last'.op = "do_execute" => last'.raised = ValueError(fatal_error))]_vars

\* a do_execute call with a well-formed run command is refused with the
\* message latched by an earlier call
C1_Witness ==
    /\ last.op = "do_execute"
    /\ last.pre_op = "do_execute"
    /\ last.input = <<"x">>
    /\ last.pre_fatal # None
    /\ fatal_error = last.pre_fatal
    /\ last.raised = ValueError(last.pre_fatal)

\* C2: a `config -f <body>` handled with the session STARTED and the latch
\* empty hands the executor exactly the cleanup payload, the reconfigure
\* payload of <body> and the create-session payload, in this order, and the
\* session is STARTED when the call ends.
C2_RestartOrdering ==
    (/\ LastIsConfig
     /\ last.pre_started
     /\ last.pre_fatal = None
     /\ Contains(LastCommand.flags, <<"f">>))
    => /\ Payloads(last.sent) =
              <<cleanup_code, spark_config_prefix \o LastCommand.rest, CreatePayload>>
       /\ session_started

C2_Witness ==
    /\ LastIsConfig
    /\ last.pre_started
    /\ last.pre_fatal = None
    /\ last.input = <<"%", "c", "o", "n", "f", "i", "g", " ", "-", "f", " ", "x">>
    /\ Len(last.sent) = 3
    /\ last.raised = NoException
    /\ session_started

\* C3: a config command without the flag f, dispatched (the latch being
\* empty) while the session is STARTED, fails with the session-already-started
\* KeyError, sends nothing to the executor, and leaves the session STARTED
\* and the latch empty.
C3_ConfigWithoutForceRefused ==
    (/\ LastIsConfig
     /\ last.pre_started
     /\ last.pre_fatal = None
     /\ ~Contains(LastCommand.flags, <<"f">>))
    => /\ last.raised = KeyError(SessionAlreadyStartedMessage)
       /\ last.sent = <<>>
       /\ session_started
       /\ fatal_error = None

C3_Witness ==
    /\ LastIsConfig
    /\ last.pre_started
    /\ last.pre_fatal = None
    /\ last.input = <<"%", "c", "o", "n", "f", "i", "g", " ", "-", "f">>
    /\ LastCommand.flags = <<>>
    /\ last.raised = KeyError(SessionAlreadyStartedMessage)

\* C4: in every reachable state the session is STARTED if and only if the
\* last lifecycle payload was a create-session payload that the executor
\* completed without error (a start completed without tripping the latch,
\* and no stop since).
C4_StartedIffStartCompleted ==
    session_started <=> (lifecycle = "create_ok")

\* C5: when the executor answers the create-session payload with status
\* "error", the do_execute call that sent it trips the latch and fails with
\* the latched message, the create-session payload is the last payload of the
\* call, and no run/sql/hive payload is sent by the call.
C5_StartFailureIsFatal ==
    (/\ last.op = "do_execute"
     /\ \E i \in 1..Len(last.sent) :
            IsCreate(last.sent[i].code) /\ last.sent[i].reply.status = "error")
    => LET n == Len(last.sent)
       IN  /\ IsCreate(last.sent[n].code)
           /\ last.sent[n].reply.status = "error"
           /\ fatal_error = CreateFailedMessage(last.sent[n].reply.evalue)
           /\ last.raised = ValueError(fatal_error)
           /\ last.ret = NoReply
           /\ \A i \in 1..n : ~IsUserPayload(last.sent[i].code)

C5_Witness ==
    /\ last.op = "do_execute"
    /\ LastCommand.raised = NoException
    /\ LastCommand.subcommand = sql_command
    /\ Len(last.sent) = 1
    /\ IsCreate(last.sent[1].code)
    /\ last.sent[1].reply.status = "error"
    /\ last.raised.type = "ValueError"

\* C6: two do_shutdown calls in a row send at most one cleanup payload
\* between them, and a do_shutdown in state NOT_STARTED sends nothing and
\* changes neither the session state nor the latch.
C6_StopIdempotent ==
    [][last'.op = "do_shutdown" =>
           /\ (last.op = "do_shutdown" =>
                   NumCleanup(last.sent) + NumCleanup(last'.sent) <= 1)
           /\ (~session_started =>
                   /\ last'.sent = <<>>
                   /\ UNCHANGED <<session_started, fatal_error, lifecycle>>)]_vars

\* the second of two do_shutdown calls in a row, the first having sent the
\* cleanup payload
C6_Witness ==
    /\ last.op = "do_shutdown"
    /\ last.pre_op = "do_shutdown"
    /\ last.pre_lifecycle = "cleanup"
    /\ ~last.pre_started
    /\ last.sent = <<>>

\* C7: a stop issued in state STARTED leaves the state NOT_STARTED whatever
\* status the executor gives the cleanup payload, and does not set the latch:
\* do_shutdown ends NOT_STARTED with the latch as it was and returns; in a
\* restart the call goes on after the cleanup payload, in state NOT_STARTED.
C7_StopNeverFatal ==
    /\ (last.op = "do_shutdown" =>
            /\ ~session_started
            /\ fatal_error = last.pre_fatal
            /\ last.raised = NoException
            /\ (last.pre_started => Payloads(last.sent) = <<cleanup_code>>))
    /\ \A i \in 1..Len(last.sent) :
           (IsCleanup(last.sent[i].code) /\ last.op = "do_execute") =>
               /\ last.sent[i].session_started
               /\ i < Len(last.sent)
               /\ ~last.sent[i + 1].session_started
               /\ ~IsCleanup(last.sent[i + 1].code)

\* a do_shutdown in state STARTED whose cleanup payload the executor fails
C7_Witness ==
    /\ last.op = "do_shutdown"
    /\ last.pre_started
    /\ last.pre_fatal = None
    /\ Len(last.sent) = 1
    /\ last.sent[1].reply.status = "error"
    /\ ~session_started
    /\ fatal_error = None

-----------------------------------------------------------------------------
(* C8 .. C10: the parser (ParseSpec) *)

UpperChar(c) ==
    IF \E i \in 1..Len(LowerCase) : LowerCase[i] = c
    THEN UpperCase[CHOOSE i \in 1..Len(LowerCase) : LowerCase[i] = c]
    ELSE c
Upper(s) == [i \in 1..Len(s) |-> UpperChar(s[i])]

IsSuffix(s, t) == Len(s) <= Len(t) /\ SubSeq(t, Len(t) - Len(s) + 1, Len(t)) = s

\* C8: for every input that does not begin with the marker %, parse returns
\* the subcommand run and, as the body, the whole input without the
\* whitespace around it.  (Stated for the inputs that are not blank, and up to
\* the whitespace around the body: the claim implies this.)
C8_ImplicitRunKeepsWholeInput ==
    (/\ parsed # NotParsed
     /\ ~StartsWith(code, <<"%">>)
     /\ Strip(code) # <<>>)
    => /\ parsed.raised = NoException
       /\ parsed.subcommand = run_command
       /\ Strip(parsed.rest) = Strip(code)

\* the input after the marker rules of lines 137-145
AfterMarker == DropFirst(ImplicitRun(NormalizeMarker(code)), 1)

\* C9: when every word after the subcommand starts with `-`, all of them but
\* the last are consumed as flags, and the last one, which nothing follows, is
\* not added to the flags and is the body.
C9_LoneFlagIsBody ==
    LET toks == Words(AfterMarker)
        n == Len(toks)
    IN  (/\ parsed # NotParsed
         /\ n >= 2
         /\ \A i \in 2..n : IsDash(toks[i]))
        => /\ parsed.raised = NoException
           /\ parsed.flags = [i \in 1..(n - 2) |-> Lower(DropFirst(toks[i + 1], 1))]
           /\ StartsWith(parsed.rest, toks[n])
           /\ Strip(parsed.rest) = toks[n]

\* `%Bc -a -Bc`: the flag -a is consumed, -Bc is the body
C9_Witness ==
    /\ parsed.raised = NoException
    /\ Words(AfterMarker) = << <<"B", "c">>, <<"-", "a">>, <<"-", "B", "c">> >>
    /\ parsed.subcommand = <<"b", "c">>
    /\ parsed.flags = << <<"a">> >>
    /\ Strip(parsed.rest) = <<"-", "B", "c">>

\* the input without its one or two markers
Unmarked(c) == IF StartsWith(c, <<"%", "%">>) THEN DropFirst(c, 2) ELSE DropFirst(c, 1)

\* the same input with the other number of markers
OtherMarkerForm(c) ==
    IF StartsWith(c, <<"%", "%">>) THEN DropFirst(c, 1) ELSE <<"%">> \o c

\* the number of words starting with `-` that follow the first word
LeadingDashes(toks) ==
    CHOOSE k \in 0..(Len(toks) - 1) :
        /\ \A i \in 2..(k + 1) : IsDash(toks[i])
        /\ (k + 2 <= Len(toks) => ~IsDash(toks[k + 2]))

\* one or two markers, a subcommand word, k >= 0 flags and a body whose first
\* word does not start with `-`
WellFormed(c) ==
    /\ StartsWith(c, <<"%">>)
    /\ Unmarked(c) # <<>>
    /\ Unmarked(c)[1] \notin Whitespace \cup {"%"}
    /\ Len(Words(Unmarked(c))) >= 2
    /\ LeadingDashes(Words(Unmarked(c))) + 2 <= Len(Words(Unmarked(c)))

\* C10: for a well-formed input parse returns the lower-cased subcommand, the
\* k flags without their `-`, lower-cased and in order, and the body (the
\* input from the first word of the body on); the one-marker and two-marker
\* forms give the same result, and the upper-case and the lower-case spelling
\* give the same subcommand and flags.
C10_WellFormedCommand ==
    (parsed # NotParsed /\ WellFormed(code)) =>
        LET toks == Words(Unmarked(code))
            k == LeadingDashes(toks)
            up == ParseUserCommand(Upper(code))
            low == ParseUserCommand(Lower(code))
        IN  /\ parsed.raised = NoException
            /\ parsed.subcommand = Lower(toks[1])
            /\ parsed.flags = [i \in 1..k |-> Lower(DropFirst(toks[i + 1], 1))]
            /\ IsSuffix(parsed.rest, code)
            /\ parsed.rest[1] \notin Whitespace
            /\ Words(parsed.rest) = SubSeq(toks, k + 2, Len(toks))
            /\ ParseUserCommand(OtherMarkerForm(code)) = parsed
            /\ up.raised = NoException /\ low.raised = NoException
            /\ up.subcommand = parsed.subcommand /\ low.subcommand = parsed.subcommand
            /\ up.flags = parsed.flags /\ low.flags = parsed.flags

\* `%%Bc -a -Bc a `: two markers, two flags, a body
C10_Witness ==
    /\ code = <<"%", "%", "B", "c", " ", "-", "a", " ", "-", "B", "c", " ", "a", " ">>
    /\ parsed.raised = NoException
    /\ parsed.subcommand = <<"b", "c">>
    /\ parsed.flags = << <<"a">>, <<"b", "c">> >>
    /\ parsed.rest = <<"a", " ">>

-----------------------------------------------------------------------------
(* C11: the parser's failure (ParseSpec) *)

\* C11: parse fails, with IndexError, exactly when the input after the marker
\* rules has fewer than two whitespace-separated words (no subcommand, or a
\* subcommand that nothing follows); for every other input it returns a
\* triple.
C11_MalformedExactlyWithoutRemainder ==
    parsed # NotParsed =>
        /\ (Len(Words(AfterMarker)) < 2 <=> parsed.raised = IndexError)
        /\ (Len(Words(AfterMarker)) >= 2 <=> parsed.raised = NoException)

\* `%a `: a marker and a subcommand that only whitespace follows
C11_Witness ==
    /\ code = <<"%", "a", " ">>
    /\ parsed.raised = IndexError

-----------------------------------------------------------------------------
(* C12 .. C20: the latch, the dispatcher and the lifecycle (Spec) *)

\* the message of a credential failure and of a failed load of the magics
CredentialsMessage ==
    <<"Please set configuration for 'kernel_", kernel_conf_name,
      "_credentials' to initialize Kernel.">>
LoadFailedMessage(evalue) ==
    <<"Failed to load the Spark magics library.", "\nException details:\n\t\"",
      evalue, "\"">>

\* the last call changed the latch
LatchChanged == fatal_error # last.pre_fatal

\* the last call was a do_execute whose create-session payload the executor
\* failed, and the latch holds the message of that failure
LatchedByStartFailure ==
    /\ last.op = "do_execute"
    /\ Len(last.sent) >= 1
    /\ IsCreate(last.sent[Len(last.sent)].code)
    /\ last.sent[Len(last.sent)].reply.status = "error"
    /\ fatal_error = CreateFailedMessage(last.sent[Len(last.sent)].reply.evalue)

\* the last call was __init__, which found no usable credentials
LatchedByCredentialFailure ==
    /\ last.op = "__init__"
    /\ last.sent = <<>>
    /\ fatal_error = CredentialsMessage

\* the last call was __init__, whose %load_ext payload the executor failed
LatchedByLoadFailure ==
    /\ last.op = "__init__"
    /\ Len(last.sent) = 1
    /\ last.sent[1].code = register_magics_code
    /\ last.sent[1].reply.status = "error"
    /\ fatal_error = LoadFailedMessage(last.sent[1].reply.evalue)

\* C12, as claimed: the latch is set only by a failed session start or by a
\* credential failure at initialization.
C12_OnlyStartOrCredentialFailure ==
    LatchChanged => (LatchedByStartFailure \/ LatchedByCredentialFailure)

\* C12, amended: the latch is set only by a failed session start, by a
\* credential failure at initialization, or by a failed load of the magics
\* extension at initialization; no other event sets it.
C12_OnlyStartCredentialOrLoadFailure ==
    LatchChanged =>
        (LatchedByStartFailure \/ LatchedByCredentialFailure \/ LatchedByLoadFailure)

\* a restart whose cleanup and reconfigure payloads both fail and whose
\* create-session payload then fails too: only the last one sets the latch
C12_Witness ==
    /\ LatchChanged
    /\ LatchedByStartFailure
    /\ Len(last.sent) = 3
    /\ last.sent[1].reply.status = "error"
    /\ last.sent[2].reply.status = "error"

\* the call failed with MalformedCommand (the parser's IndexError) or with
\* UnrecognizedCommand (the KeyError of line 78)
FailedAsMalformedOrUnrecognized(call) ==
    /\ call.op = "do_execute"
    /\ \/ call.raised = IndexError
       \/ /\ call.raised.type = "KeyError"
          /\ call.raised.args # SessionAlreadyStartedMessage

\* C13: a do_execute call that fails with MalformedCommand or with
\* UnrecognizedCommand sends nothing to the executor and leaves the session
\* state and the latch as they were; the do_execute call that follows it, given
\* the run command `x`, is processed: it sends the wrapped body last and returns
\* the executor's reply to it, unless the session it has to start fails.
C13_ParseFailuresLeaveNoTrace ==
    [][/\ FailedAsMalformedOrUnrecognized(last') =>
              /\ last'.sent = <<>>
              /\ UNCHANGED <<session_started, fatal_error, lifecycle>>
       /\ (/\ FailedAsMalformedOrUnrecognized(last)
           /\ last'.op = "do_execute"
           /\ last'.input = <<"x">>) =>
              LET n == Len(last'.sent)
              IN  /\ n >= 1
                  /\ \/ /\ last'.raised = NoException
                        /\ last'.sent[n].code = spark_run_prefix \o <<"x">>
                        /\ last'.ret = last'.sent[n].reply
                        /\ session_started'
                     \/ /\ IsCreate(last'.sent[n].code)
                        /\ last'.sent[n].reply.status = "error"]_vars

\* the run command `x` processed right after an unrecognized command
C13_Witness ==
    /\ last.op = "do_execute"
    /\ last.pre_op = "do_execute"
    /\ last.input = <<"x">>
    /\ last.raised = NoException
    /\ last.pre_raised = KeyError(NotSupportedMessage(<<"f", "o", "o">>))
    /\ Len(last.sent) = 2
    /\ IsCreate(last.sent[1].code)

\* the last call was a do_execute of a run, sql or hive command
LastIsRun ==
    /\ last.op = "do_execute"
    /\ LastCommand.raised = NoException
    /\ LastCommand.subcommand \in {run_command, sql_command, hive_command}

\* the payload that lines 52, 55 and 58 make of the body
WrappedBody(command) ==
    (IF command.subcommand = run_command THEN spark_run_prefix
     ELSE IF command.subcommand = sql_command THEN spark_sql_prefix
     ELSE spark_hive_prefix) \o command.rest

\* C14: for a run, sql or hive command with the latch empty: in state
\* NOT_STARTED, when the executor accepts the create-session payload, the
\* executor gets exactly the create-session payload and then the wrapped body,
\* and the state ends STARTED; in state STARTED the executor gets exactly the
\* wrapped body.
C14_EnsureStartedThenExecute ==
    (LastIsRun /\ last.pre_fatal = None) =>
        /\ (~last.pre_started /\ Len(last.sent) >= 1 /\ last.sent[1].reply.status = "ok") =>
               /\ Payloads(last.sent) = <<CreatePayload, WrappedBody(LastCommand)>>
               /\ session_started
               /\ last.raised = NoException
        /\ (~last.pre_started) =>
               (Len(last.sent) >= 1 /\ last.sent[1].code = CreatePayload)
        /\ last.pre_started =>
               /\ Payloads(last.sent) = <<WrappedBody(LastCommand)>>
               /\ session_started
               /\ last.raised = NoException

\* `%%sql x` in state NOT_STARTED, the session start accepted
C14_Witness ==
    /\ LastIsRun
    /\ last.input = <<"%", "%", "s", "q", "l", " ", "x">>
    /\ ~last.pre_started
    /\ last.pre_fatal = None
    /\ Len(last.sent) = 2
    /\ last.sent[2].code = spark_sql_prefix \o <<"x">>
    /\ session_started

\* C15: a config command, with or without the flag f, dispatched (the latch
\* being empty) in state NOT_STARTED sends the executor exactly one payload,
\* the reconfigure payload of its body, returns the executor's reply to it,
\* and leaves the state NOT_STARTED and the latch empty.
C15_ConfigWhenNotStarted ==
    (LastIsConfig /\ ~last.pre_started /\ last.pre_fatal = None) =>
        /\ Payloads(last.sent) = <<spark_config_prefix \o LastCommand.rest>>
        /\ last.raised = NoException
        /\ last.ret = last.sent[1].reply
        /\ ~session_started
        /\ fatal_error = None
        /\ lifecycle = last.pre_lifecycle

\* `%config -f x` in state NOT_STARTED, the executor failing the payload
C15_Witness ==
    /\ LastIsConfig
    /\ last.input = <<"%", "c", "o", "n", "f", "i", "g", " ", "-", "f", " ", "x">>
    /\ LastCommand.flags = << <<"f">> >>
    /\ ~last.pre_started
    /\ last.pre_fatal = None
    /\ Len(last.sent) = 1
    /\ last.sent[1].reply.status = "error"
    /\ ~session_started

\* C16: do_shutdown, in every state (STARTED or not, latch empty or set),
\* stops the session before it calls the host's shutdown: the host's shutdown
\* is called exactly once, with the restart argument, after every payload of
\* the call, in state NOT_STARTED, and its result is returned; in state
\* STARTED the cleanup payload has been sent before it.
C16_ShutdownStopsFirst ==
    last.op = "do_shutdown" =>
        /\ Len(last.host) = 1
        /\ last.host[1].restart = last.silent
        /\ ~last.host[1].session_started
        /\ last.host[1].sent = Len(last.sent)
        /\ last.pre_started <=> Payloads(last.sent) = <<cleanup_code>>
        /\ ~last.pre_started <=> last.sent = <<>>
        /\ last.raised = NoException
        /\ last.ret = [status |-> "ok", restart |-> last.silent]
        /\ ~session_started

\* do_shutdown after a failed session start: the latch is set, the state is
\* STARTED, the cleanup payload is sent and the host's shutdown is called
C16_Witness ==
    /\ last.op = "do_shutdown"
    /\ last.pre_started
    /\ last.pre_fatal # None
    /\ Len(last.sent) = 1
    /\ Len(last.host) = 1
    /\ last.host[1].sent = 1

\* the last call was a config with the flag f, dispatched in state STARTED:
\* a restart was requested
LastIsRestart ==
    /\ LastIsConfig
    /\ last.pre_started
    /\ last.pre_fatal = None
    /\ Contains(LastCommand.flags, <<"f">>)

\* C17: when a restart was requested, whatever the executor answers to the
\* cleanup and to the reconfigure payload, the cleanup payload is sent before
\* and the create-session payload after the reconfigure payload; the call
\* returns the executor's reply to the reconfigure payload, and fails only
\* when the create-session payload fails.
C17_RestartIsUnconditional ==
    LastIsRestart =>
        /\ Len(last.sent) = 3
        /\ IsCleanup(last.sent[1].code)
        /\ last.sent[2].code = spark_config_prefix \o LastCommand.rest
        /\ last.sent[3].code = CreatePayload
        /\ last.sent[3].reply.status = "ok" =>
               (last.raised = NoException /\ last.ret = last.sent[2].reply)
        /\ last.sent[3].reply.status = "error" =>
               last.raised = ValueError(CreateFailedMessage(last.sent[3].reply.evalue))

\* a restart whose cleanup and reconfigure payloads the executor fails and
\* whose create-session payload it accepts
C17_Witness ==
    /\ LastIsRestart
    /\ Len(last.sent) = 3
    /\ last.sent[1].reply.status = "error"
    /\ last.sent[2].reply = [status |-> "error", evalue |-> "e2"]
    /\ last.sent[3].reply.status = "ok"
    /\ last.ret = [status |-> "error", evalue |-> "e2"]
    /\ last.raised = NoException

\* the last lifecycle payload sent before the i-th payload of the last call:
\* "create", "cleanup", or "none" when there was none yet
RECURSIVE KindBefore(_)
KindBefore(i) ==
    IF i = 1
    THEN (IF last.pre_lifecycle \in {"create_ok", "create_error"} THEN "create"
          ELSE last.pre_lifecycle)
    ELSE IF IsCreate(last.sent[i - 1].code) THEN "create"
    ELSE IF IsCleanup(last.sent[i - 1].code) THEN "cleanup"
    ELSE KindBefore(i - 1)

\* C18: over all calls, the create-session and cleanup payloads alternate,
\* beginning with a create-session payload: a create-session payload is sent
\* only when the lifecycle payload before it, if any, was a cleanup, and a
\* cleanup only when the lifecycle payload before it was a create-session.
C18_CreateAndCleanupAlternate ==
    /\ \A i \in 1..Len(last.sent) :
           /\ IsCreate(last.sent[i].code) => KindBefore(i) \in {"none", "cleanup"}
           /\ IsCleanup(last.sent[i].code) => KindBefore(i) = "create"
    /\ lifecycle \in {"create_ok", "create_error"} <=>
           KindBefore(Len(last.sent) + 1) = "create"
    /\ lifecycle = "cleanup" <=> KindBefore(Len(last.sent) + 1) = "cleanup"

\* a restart after a session start: create-session (in an earlier call),
\* then cleanup and create-session in this call
C18_Witness ==
    /\ LastIsRestart
    /\ last.pre_lifecycle = "create_ok"
    /\ Len(last.sent) = 3
    /\ KindBefore(1) = "create"
    /\ KindBefore(3) = "cleanup"
    /\ lifecycle = "create_error"

\* the status of the last lifecycle payload sent before the i-th payload of
\* the last call
RECURSIVE LifecycleBefore(_)
LifecycleBefore(i) ==
    IF i = 1 THEN last.pre_lifecycle
    ELSE LifecycleAfter(LifecycleBefore(i - 1), last.sent[i - 1].code,
                        last.sent[i - 1].reply)

\* C19: a run, sql or hive payload is sent only by a call that found the
\* latch empty, and only when the last lifecycle payload before it is a
\* create-session payload that the executor completed without error; a
\* do_execute call that finds the latch set sends nothing.
C19_UserPayloadOnlyInLiveSession ==
    /\ \A i \in 1..Len(last.sent) :
           IsUserPayload(last.sent[i].code) =>
               /\ last.op = "do_execute"
               /\ last.pre_fatal = None
               /\ LifecycleBefore(i) = "create_ok"
               /\ last.sent[i].session_started
    /\ (last.op = "do_execute" /\ last.pre_fatal # None) => last.sent = <<>>

\* a run payload sent in a session that an earlier call started
C19_Witness ==
    /\ LastIsRun
    /\ last.pre_started
    /\ last.pre_lifecycle = "create_ok"
    /\ Len(last.sent) = 1
    /\ IsUserPayload(last.sent[1].code)

\* C20: the reconfigure payload is sent only while the session state is
\* NOT_STARTED: never by a call that found the session STARTED unless the
\* cleanup payload went out just before it.
C20_ReconfigureOnlyWhenNotStarted ==
    \A i \in 1..Len(last.sent) :
        StartsWith(last.sent[i].code, spark_config_prefix) =>
            /\ ~last.sent[i].session_started
            /\ LifecycleBefore(i) \in {"none", "cleanup"}
            /\ last.pre_started => (i = 2 /\ IsCleanup(last.sent[1].code))

\* the reconfigure payload of a restart, sent after the cleanup payload
C20_Witness ==
    /\ LastIsRestart
    /\ Len(last.sent) >= 2
    /\ StartsWith(last.sent[2].code, spark_config_prefix)
    /\ last.sent[1].session_started
    /\ ~last.sent[2].session_started

====
